---- MODULE Spec2Model ----
(***************************************************************************)
(* Model of the ESP32-S3 audio streamer (src/src/main.cpp): setup(), the   *)
(* capture task, the processing task (AudioPipeline + BatchAssembler +     *)
(* WebSocketManager::sendBatch) and loop(), which services the WebSocket.  *)
(* The three tasks run concurrently; every action below is one step of one *)
(* task between two points where another task can observe or interfere.    *)
(***************************************************************************)
EXTENDS Integers, Sequences, FiniteSets, TLC

\* ------------------------------------------------------------------ bounds
\* Number of frames the capture task stamps before the model stops it (the
\* sequence counter is unbounded in the program).
MaxFrames == 10
\* Number of reads that deliver only part of a frame.
MaxPartialReads == 1
\* Samples kept per frame in the model (the program's FRAME_SIZE is 480).
FrameLen == 2
\* Batches the output-queue producer creates before the model stops it.
MaxOutBatches == 12
\* Samples kept per AudioProcessor buffer in the model (BUFFER_SIZE is 512).
ApBufLen == 2
\* Calls of processAudio before the model stops making them.
MaxApCalls == 3

\* ------------------------------------------------------- program constants
FRAMES_PER_BATCH == 4
QUEUE_DEPTH == 8
PROTOCOL_MAGIC == "0xABCD1234"
PROTOCOL_VERSION == 1
INT16_MAX == 32767
INT16_MIN == -32768
WS_QUEUE_DEPTH == 8
FLAG_QUEUE_OVERFLOW == 1
\* CLEAN_PCM_SCALE = 0.8f as the fraction ScaleNum / ScaleDen
ScaleNum == 4
ScaleDen == 5
\* sizeof(int16_t)
SampleBytes == 2
FRAME_SIZE == 480
\* sizeof(uint32_t), sizeof(float), sizeof(uint8_t)
Uint32Bytes == 4
FloatBytes == 4
Uint8Bytes == 1
\* uint8_t reserved[3]
ReservedLen == 3
\* samples per frame according to i2s_config.h
BUFFER_SIZE == 512
\* sizeof(int32_t)
Int32Bytes == 4

FrameBytes == SampleBytes * FrameLen

\* ------------------------------------------------------------- pure helpers
\* Variant of Inc32 whose update is lost.
Inc32Lost(x) == x

\* ++ on a uint32_t counter. The counters wrap at 2^32, which is beyond TLC's
\* integers; MaxFrames keeps every counter of the model far below that.
Inc32(x) == x + 1

\* Variant of TruncDiv that rounds toward minus infinity.
TruncDivFloor(num, den) == num \div den

\* static_cast<int16_t>(float): truncation toward zero of num/den
TruncDiv(num, den) == IF num >= 0 THEN num \div den ELSE -((-num) \div den)

\* Variant of ScaleSample that copies the sample unscaled (a raw pass-through).
ScaleSampleRawCopy(s) == s

\* applyScale on one sample: src * 0.8f, clamped, truncated toward zero.
\* For every int16 input the float32 product truncates to the same integer as
\* the exact quotient (4 * src) / 5.
ScaleSample(s) ==
    LET scaledNum == s * ScaleNum
        clampedNum == IF scaledNum > INT16_MAX * ScaleDen THEN INT16_MAX * ScaleDen
                      ELSE IF scaledNum < INT16_MIN * ScaleDen THEN INT16_MIN * ScaleDen
                      ELSE scaledNum
    IN TruncDiv(clampedNum, ScaleDen)

applyScale(src) == [i \in 1..Len(src) |-> ScaleSample(src[i])]

ZeroPcm == [i \in 1..FrameLen |-> 0]

\* ------------------------------------------------------------- wire layout
\* The members of the packed structs of protocol_schema.h in declaration
\* order, each with its size in bytes.
BatchHeaderFields ==
    << [name |-> "magic", size |-> Uint32Bytes],
       [name |-> "version", size |-> Uint8Bytes],
       [name |-> "reserved", size |-> ReservedLen * Uint8Bytes],
       [name |-> "batch_seq", size |-> Uint32Bytes],
       [name |-> "timestamp_ms", size |-> Uint32Bytes] >>

\* Variant of AudioFrameFields whose PCM arrays hold 32-bit samples.
AudioFrameFieldsWide(frameSize) ==
    << [name |-> "frame_seq", size |-> Uint32Bytes],
       [name |-> "vad_prob", size |-> FloatBytes],
       [name |-> "rms_raw", size |-> FloatBytes],
       [name |-> "raw_pcm", size |-> frameSize * Uint32Bytes],
       [name |-> "clean_pcm", size |-> frameSize * Uint32Bytes] >>

AudioFrameFields(frameSize) ==
    << [name |-> "frame_seq", size |-> Uint32Bytes],
       [name |-> "vad_prob", size |-> FloatBytes],
       [name |-> "rms_raw", size |-> FloatBytes],
       [name |-> "raw_pcm", size |-> frameSize * SampleBytes],
       [name |-> "clean_pcm", size |-> frameSize * SampleBytes] >>

\* Offset of member k of a packed struct: the sizes of the members before it.
RECURSIVE PackedOffset(_, _)
PackedOffset(fields, k) ==
    IF k <= 1 THEN 0 ELSE PackedOffset(fields, k - 1) + fields[k - 1].size

\* sizeof of a packed struct: no padding between or after the members
PackedSize(fields) == PackedOffset(fields, Len(fields) + 1)

\* sizeof(BatchPacket): the header followed by frames[FRAMES_PER_BATCH]
SizeofBatchPacket(frameSize) ==
    PackedSize(BatchHeaderFields) + FRAMES_PER_BATCH * PackedSize(AudioFrameFields(frameSize))

\* ------------------------------------------------------------ input signals
\* The microphone signal of a run: period k (0-based), sample i (1-based).
SignalNames == {"impulse", "ramp"}

SignalSample(sig, k, i) ==
    IF sig = "impulse"
    THEN (IF k = 0 /\ i = 1 THEN 1000 ELSE 0)
    ELSE 10 * (k + 1) + i

SignalFrame(sig, k) == [i \in 1..FrameLen |-> SignalSample(sig, k, i)]

\* What the capture task's stack buffer may hold before the first read (it is
\* not initialised).
UninitPcm == {ZeroPcm, [i \in 1..FrameLen |-> -1]}

\* --------------------------------------------------------------- processors
\* Processor objects: the two that setup() may pass to begin() (Option A and
\* Option B) and the static fallback inside begin().
SuppliedProcessors == {"proc", "aiProc"}

ProcessorInit(p) == IF p = "aiProc" THEN FALSE ELSE TRUE

ProcessorVad(p) == IF p = "aiProc" THEN 50 ELSE 99

ProcessorOutput(p, input) == applyScale(input)

VARIABLES
    pcSetup,        \* setup(): "wifi", "queue", "i2s", "pipeline", "tasks", "done", "halted"
    setupFailure,   \* the call of setup() that failed: "none", "queue", "i2s"
    buildFrameSize, \* value of FRAME_SIZE the firmware was compiled with
    supplied,       \* the processor object setup() passes to begin()
    processor_,     \* AudioPipeline::processor_ ("null" before begin)
    beginResult,    \* value returned by AudioPipeline::begin ("none" before)
    usedProcessors, \* processor objects whose processFrame has been called
    mic,            \* the microphone signal of this run
    partialReads,   \* reads so far that delivered only part of a frame
    pcCap,          \* capture task: "off", "read", "send", "blocked", "count", "overrun"
    capBuffer,      \* taskAudioCapture's local AudioBuffer
    sequence,       \* taskAudioCapture's local sequence counter
    bytesRead,      \* taskAudioCapture's local bytesRead
    g_audioQueue,   \* the Frame Queue (FreeRTOS queue of AudioBuffer copies)
    capLog,         \* samples written by capture for frames still in flight
    pcProc,         \* processing task: "off","recv","process","send","sendBIN","mark"
    procBuffer,     \* taskAudioProcessing's local AudioBuffer
    assembler_,     \* AudioPipeline::assembler_
    slotsWritten,   \* packet slots written since the last reset()
    sealedCount,    \* number of finalizeBatch() calls so far
    g_telemetry,    \* the Telemetry struct
    touched,        \* per shared object: the tasks that have read or written it
    wsState,        \* connection state kept by ws_
    binOnConn,      \* sendBIN calls made on the current connection
    txtOnConn,      \* sendTXT calls made on the current connection
    lastBinSeq,     \* batch_seq of the last batch given to sendBIN (-1: none)
    sendFailures,   \* sendBIN calls that returned false
    lastBinLen,     \* length in bytes given to the last sendBIN (-1: none)
    outQueue,       \* Output Queue (spec 4.5)
    outOverflow,    \* Output Queue overflow counter
    outProduced,    \* batches offered to the Output Queue so far
    scalePc,        \* scaling run: "idle" before processFrame, "done" after
    scaleOrig,      \* scaling run: the input frame as the caller supplied it
    scaleIn,        \* scaling run: the input buffer
    scaleOut,       \* scaling run: the output buffer
    apPc,           \* AudioProcessor: "constructed", "begun", "crashed"
    raw_samples,    \* AudioProcessor::raw_samples (alloc: non-null; data: contents)
    processed_samples, \* AudioProcessor::processed_samples
    sample_count,   \* AudioProcessor::sample_count
    apBytesRead,    \* bytes_read of the last processAudio call (-1: none)
    apCalls,        \* processAudio calls made so far
    apPrinted,      \* what the last printAudioStats printed (<<>>: nothing)
    nullAccess      \* buffers that have been read or written through a null pointer

setupVars == <<pcSetup, setupFailure, buildFrameSize, supplied, processor_, beginResult>>
capVars == <<mic, partialReads, pcCap, capBuffer, sequence, bytesRead>>
procVars == <<pcProc, procBuffer, assembler_, slotsWritten, sealedCount, usedProcessors>>
wsVars == <<wsState, binOnConn, txtOnConn, lastBinSeq, sendFailures, lastBinLen>>
outVars == <<outQueue, outOverflow, outProduced>>
scaleVars == <<scalePc, scaleOrig, scaleIn, scaleOut>>
apVars == <<apPc, raw_samples, processed_samples, sample_count, apBytesRead, apCalls,
           apPrinted, nullAccess>>
sideVars == <<outVars, scaleVars, apVars>>
pipelineVars == <<setupVars, capVars, procVars, wsVars, g_audioQueue, capLog, g_telemetry,
                  touched>>
vars == <<pipelineVars, sideVars>>

\* ------------------------------------------------------------ shared objects
\* Objects with static storage that the tasks use once they run: the Frame
\* Queue, ws_ inside g_websocket, assembler_ inside g_pipeline, and the four
\* counters of g_telemetry.
TelemetryCounters == {"framesCaptured", "framesProcessed", "batchesSent", "queueOverruns"}

SharedObjects == {"g_audioQueue", "ws_", "assembler_"} \cup TelemetryCounters

\* touched after the given task has read or written the given objects
Touch(t, objs, task) ==
    [o \in DOMAIN t |-> IF o \in objs THEN t[o] \cup {task} ELSE t[o]]

\* ---------------------------------------------------------------- records
NoFrame == [pcm |-> ZeroPcm, sequence |-> -1]

ZeroFrame == [frame_seq |-> 0, vad_prob |-> 0, raw_pcm |-> ZeroPcm, clean_pcm |-> ZeroPcm]

ZeroHeader == [magic |-> "0x00000000", version |-> 0, batch_seq |-> 0]

\* Variant of AssemblerReset that clears the header but not the frame count.
AssemblerResetHeaderOnly(a) ==
    [a EXCEPT !.packet.header = ZeroHeader]

\* Variant of AssemblerReset that also clears the batch sequence counter.
AssemblerResetAll(a) ==
    [a EXCEPT !.frameCount = 0, !.packet.header = ZeroHeader, !.batchSequence = 0]

\* BatchAssembler::reset
AssemblerReset(a) ==
    [a EXCEPT !.frameCount = 0, !.packet.header = ZeroHeader]

\* AudioPipeline::finalizeBatch
finalizeBatch(a) ==
    [a EXCEPT !.packet.header = [magic |-> PROTOCOL_MAGIC,
                                 version |-> PROTOCOL_VERSION,
                                 batch_seq |-> a.batchSequence],
              !.batchSequence = Inc32(a.batchSequence)]

\* The slot AudioPipeline::processFrame writes (1-based index of frames[frameCount])
SlotIndex(a) == a.frameCount + 1

\* Variant of WriteFrame that numbers the frame by its place in the batch.
WriteFrameSlotSeq(a, buf, p) ==
    [a EXCEPT !.packet.frames[SlotIndex(a)] =
                  [frame_seq |-> a.frameCount,
                   vad_prob |-> ProcessorVad(p),
                   raw_pcm |-> buf.pcm,
                   clean_pcm |-> ProcessorOutput(p, buf.pcm)],
              !.frameCount = a.frameCount + 1]

\* AudioPipeline::processFrame up to and including frameCount++
WriteFrame(a, buf, p) ==
    [a EXCEPT !.packet.frames[SlotIndex(a)] =
                  [frame_seq |-> buf.sequence,
                   vad_prob |-> ProcessorVad(p),
                   raw_pcm |-> buf.pcm,
                   clean_pcm |-> ProcessorOutput(p, buf.pcm)],
              !.frameCount = a.frameCount + 1]

\* Variant of BatchReady that is off by one.
BatchReadyEarly(a) == a.frameCount >= FRAMES_PER_BATCH - 1

\* if (assembler_.frameCount >= FRAMES_PER_BATCH)
BatchReady(a) == a.frameCount >= FRAMES_PER_BATCH

\* Variant of BeginProcessor without the fallback substitution.
BeginProcessorNoFallback(p) == p

\* AudioPipeline::begin: the processor that ends up active
BeginProcessor(p) == IF ProcessorInit(p) THEN p ELSE "fallback"

InitPipeline ==
    /\ pcSetup = "wifi"
    /\ setupFailure = "none"
    /\ supplied \in SuppliedProcessors
    /\ processor_ = "null"
    /\ beginResult = "none"
    /\ usedProcessors = {}
    /\ mic \in SignalNames
    /\ pcCap = "off"
    /\ capBuffer = NoFrame
    /\ sequence = 0
    /\ bytesRead = 0
    /\ g_audioQueue = <<>>
    /\ capLog = {}
    /\ pcProc = "off"
    /\ procBuffer = NoFrame
    /\ assembler_ = [packet |-> [header |-> ZeroHeader,
                                 frames |-> [i \in 1..FRAMES_PER_BATCH |-> ZeroFrame]],
                     frameCount |-> 0,
                     batchSequence |-> 0]
    /\ slotsWritten = {}
    /\ sealedCount = 0
    /\ g_telemetry = [framesCaptured |-> 0, framesProcessed |-> 0,
                      batchesSent |-> 0, queueOverruns |-> 0]
    /\ wsState = "Disconnected"
    /\ binOnConn = 0
    /\ txtOnConn = 0
    /\ lastBinSeq = -1
    /\ sendFailures = 0
    /\ lastBinLen = -1
    /\ touched = [o \in SharedObjects |-> {}]

InitOut ==
    /\ outQueue = <<>>
    /\ outOverflow = 0
    /\ outProduced = 0

\* AudioProcessor::AudioProcessor()
NullBuffer == [alloc |-> FALSE, data |-> <<>>]

InitAP ==
    /\ apPc = "constructed"
    /\ raw_samples = NullBuffer
    /\ processed_samples = NullBuffer
    /\ sample_count = 0
    /\ apBytesRead = -1
    /\ apCalls = 0
    /\ apPrinted = <<>>
    /\ nullAccess = {}

InitScaleIdle ==
    /\ scalePc = "idle"
    /\ scaleOrig = ZeroPcm
    /\ scaleIn = ZeroPcm
    /\ scaleOut = ZeroPcm

Init ==
    /\ InitPipeline
    /\ buildFrameSize = FRAME_SIZE
    /\ partialReads = 0
    /\ InitOut
    /\ InitScaleIdle
    /\ InitAP

\* ------------------------------------------------------------------ setup()
\* WiFi.begin, the wait for WL_CONNECTED and g_websocket.begin(): the step is
\* taken when the WiFi connects; until then setup() stays in the wait loop.
SetupWifi ==
    /\ pcSetup = "wifi"
    /\ pcSetup' = "queue"
    /\ UNCHANGED <<setupFailure, buildFrameSize, supplied, processor_, beginResult, capVars,
                   procVars, wsVars, sideVars, touched, g_audioQueue, capLog, g_telemetry>>

\* if (!g_audioQueue) { ...; while (true) delay(1000); }
AfterQueueCreate(ok) == IF ok THEN "i2s" ELSE "halted"

\* xQueueCreate succeeds, or fails and setup() halts in while(true)
SetupQueue ==
    /\ pcSetup = "queue"
    /\ \E ok \in BOOLEAN :
        /\ pcSetup' = AfterQueueCreate(ok)
        /\ setupFailure' = IF ok THEN setupFailure ELSE "queue"
    /\ UNCHANGED <<buildFrameSize, supplied, processor_, beginResult, capVars, procVars,
                   wsVars, sideVars, touched, g_audioQueue, capLog, g_telemetry>>

\* Variant of AfterI2SBegin that goes on when the driver failed to start.
AfterI2SBeginNoHalt(ok) == "pipeline"

\* if (!g_i2s.begin()) { ...; while (true) delay(1000); }
AfterI2SBegin(ok) == IF ok THEN "pipeline" ELSE "halted"

\* g_i2s.begin() succeeds, or fails and setup() halts in while(true)
SetupI2S ==
    /\ pcSetup = "i2s"
    /\ \E ok \in BOOLEAN :
        /\ pcSetup' = AfterI2SBegin(ok)
        /\ setupFailure' = IF ok THEN setupFailure ELSE "i2s"
    /\ UNCHANGED <<buildFrameSize, supplied, processor_, beginResult, capVars, procVars,
                   wsVars, sideVars, touched, g_audioQueue, capLog, g_telemetry>>

\* g_pipeline.begin(&proc, g_audioQueue)
SetupPipeline ==
    /\ pcSetup = "pipeline"
    /\ processor_' = BeginProcessor(supplied)
    /\ assembler_' = AssemblerReset(assembler_)
    /\ slotsWritten' = {}
    /\ beginResult' = "true"
    /\ pcSetup' = "tasks"
    /\ UNCHANGED <<setupFailure, buildFrameSize, supplied, capVars, pcProc, procBuffer,
                   sealedCount, usedProcessors, wsVars, sideVars, touched, g_audioQueue, capLog,
                   g_telemetry>>

\* the two xTaskCreatePinnedToCore calls
SetupTasks ==
    /\ pcSetup = "tasks"
    /\ pcSetup' = "done"
    /\ pcCap' = "read"
    /\ pcProc' = "recv"
    /\ UNCHANGED <<setupFailure, buildFrameSize, supplied, processor_, beginResult, mic,
                   partialReads, capBuffer, sequence, bytesRead, procBuffer, assembler_,
                   slotsWritten, sealedCount, usedProcessors, wsVars, sideVars, touched,
                   g_audioQueue, capLog, g_telemetry>>

\* --------------------------------------------------------- taskAudioCapture
\* Byte counts i2s_read may deliver: 0 (error or timeout), part of a frame
\* (the model takes the shortest one, a single sample), or a whole frame.
ReadSizes == {0, SampleBytes, FrameBytes}

\* The buffer after a read of n bytes of period k: the first n bytes are new,
\* the rest is what the buffer held before.
ReadInto(old, sig, k, n) ==
    [i \in 1..FrameLen |-> IF i * SampleBytes <= n THEN SignalSample(sig, k, i) ELSE old[i]]

\* g_i2s.read(buffer.pcm, 100) and, when bytesRead > 0, the stamping of the frame.
\* A read of 0 bytes (error or timeout) leaves the task at the top of its loop.
CaptureRead ==
    /\ pcCap = "read"
    /\ sequence < MaxFrames
    /\ \E n \in ReadSizes, garbage \in UninitPcm :
        LET old == IF capBuffer.sequence = -1 THEN garbage ELSE capBuffer.pcm
            pcm == ReadInto(old, mic, sequence, n)
        IN
        /\ (0 < n /\ n < FrameBytes) => partialReads < MaxPartialReads
        /\ (capBuffer.sequence /= -1 \/ n = 0 \/ n = FrameBytes) => garbage = ZeroPcm
        /\ bytesRead' = n
        /\ partialReads' = IF 0 < n /\ n < FrameBytes THEN partialReads + 1
                           ELSE partialReads
        /\ IF n > 0
           THEN /\ capBuffer' = [pcm |-> pcm, sequence |-> sequence]
                /\ sequence' = Inc32(sequence)
                /\ capLog' = capLog \cup {[sequence |-> sequence, pcm |-> pcm]}
                /\ pcCap' = "send"
           ELSE UNCHANGED <<capBuffer, sequence, capLog, pcCap>>
    /\ UNCHANGED <<setupVars, mic, procVars, wsVars, sideVars, touched, g_audioQueue, g_telemetry>>

\* Variant of QueueSendEntry for a queue of pointers to the caller's buffer:
\* every queued item shows the samples the buffer holds now.
QueueSendEntryByReference(q, item) ==
    IF Len(q) < QUEUE_DEPTH
    THEN [queue |-> Append([i \in 1..Len(q) |-> [q[i] EXCEPT !.pcm = item.pcm]], item),
          pc |-> "count"]
    ELSE [queue |-> q, pc |-> "blocked"]

\* Variant of QueueSendEntry that makes room by discarding the oldest item.
QueueSendEntryEvictOldest(q, item) ==
    IF Len(q) < QUEUE_DEPTH
    THEN [queue |-> Append(q, item), pc |-> "count"]
    ELSE [queue |-> Append(Tail(q), item), pc |-> "count"]

\* What xQueueSend(g_audioQueue, &buffer, pdMS_TO_TICKS(10)) does on entry:
\* copy the item in when there is room, otherwise suspend the caller.
QueueSendEntry(q, item) ==
    IF Len(q) < QUEUE_DEPTH
    THEN [queue |-> Append(q, item), pc |-> "count"]
    ELSE [queue |-> q, pc |-> "blocked"]

CaptureSend ==
    /\ pcCap = "send"
    /\ g_audioQueue' = QueueSendEntry(g_audioQueue, capBuffer).queue
    /\ pcCap' = QueueSendEntry(g_audioQueue, capBuffer).pc
    /\ touched' = Touch(touched, {"g_audioQueue"}, "AudioCapture")
    /\ UNCHANGED <<setupVars, mic, partialReads, capBuffer, sequence, bytesRead, procVars,
                   wsVars, sideVars, capLog, g_telemetry>>

\* a slot became free within the 10 ms: xQueueSend copies the item and returns pdPASS
CaptureUnblock ==
    /\ pcCap = "blocked"
    /\ Len(g_audioQueue) < QUEUE_DEPTH
    /\ g_audioQueue' = Append(g_audioQueue, capBuffer)
    /\ pcCap' = "count"
    /\ touched' = Touch(touched, {"g_audioQueue"}, "AudioCapture")
    /\ UNCHANGED <<setupVars, mic, partialReads, capBuffer, sequence, bytesRead, procVars,
                   wsVars, sideVars, capLog, g_telemetry>>

\* the 10 ms expire with the queue still full: the frame is dropped and counted
CaptureTimeout ==
    /\ pcCap = "blocked"
    /\ Len(g_audioQueue) >= QUEUE_DEPTH
    /\ g_telemetry' = [g_telemetry EXCEPT !.queueOverruns = Inc32(@)]
    /\ capLog' = {e \in capLog : e.sequence /= capBuffer.sequence}
    /\ pcCap' = "read"
    /\ touched' = Touch(touched, {"g_audioQueue", "queueOverruns"}, "AudioCapture")
    /\ UNCHANGED <<setupVars, mic, partialReads, capBuffer, sequence, bytesRead, procVars,
                   wsVars, sideVars, g_audioQueue>>

\* g_telemetry.framesCaptured++ after xQueueSend returned pdPASS
CaptureCount ==
    /\ pcCap = "count"
    /\ g_telemetry' = [g_telemetry EXCEPT !.framesCaptured = Inc32(@)]
    /\ pcCap' = "read"
    /\ touched' = Touch(touched, {"framesCaptured"}, "AudioCapture")
    /\ UNCHANGED <<setupVars, mic, partialReads, capBuffer, sequence, bytesRead, procVars,
                   wsVars, sideVars, g_audioQueue, capLog>>

\* ------------------------------------------------------ taskAudioProcessing
\* Variant of QueueReceive that takes the newest item (a stack, not a queue).
QueueReceiveNewest(q) == [item |-> q[Len(q)], queue |-> SubSeq(q, 1, Len(q) - 1)]

\* xQueueReceive(g_audioQueue, &buffer, portMAX_DELAY): the item received and the
\* queue left behind
QueueReceive(q) == [item |-> Head(q), queue |-> Tail(q)]

ProcReceive ==
    /\ pcProc = "recv"
    /\ g_audioQueue /= <<>>
    /\ procBuffer' = QueueReceive(g_audioQueue).item
    /\ g_audioQueue' = QueueReceive(g_audioQueue).queue
    /\ pcProc' = "process"
    /\ touched' = Touch(touched, {"g_audioQueue"}, "AudioProcessing")
    /\ UNCHANGED <<setupVars, capVars, assembler_, slotsWritten, sealedCount,
                   usedProcessors, wsVars, sideVars, capLog, g_telemetry>>

\* Variant of processFrame that resets the assembler as soon as it has sealed
\* the batch.
processFrameResetOnSeal(a, buf, p) ==
    IF BatchReady(WriteFrame(a, buf, p))
    THEN AssemblerReset(finalizeBatch(WriteFrame(a, buf, p)))
    ELSE WriteFrame(a, buf, p)

\* AudioPipeline::processFrame, finalizeBatch included
processFrame(a, buf, p) ==
    IF BatchReady(WriteFrame(a, buf, p))
    THEN finalizeBatch(WriteFrame(a, buf, p))
    ELSE WriteFrame(a, buf, p)

\* g_telemetry.framesProcessed++ and g_pipeline.processFrame(buffer)
ProcProcessFrame ==
    /\ pcProc = "process"
    /\ g_telemetry' = [g_telemetry EXCEPT !.framesProcessed = Inc32(@)]
    /\ assembler_' = processFrame(assembler_, procBuffer, processor_)
    /\ slotsWritten' = slotsWritten \cup {SlotIndex(assembler_)}
    /\ usedProcessors' = usedProcessors \cup {processor_}
    /\ sealedCount' = IF BatchReady(WriteFrame(assembler_, procBuffer, processor_))
                      THEN sealedCount + 1 ELSE sealedCount
    /\ pcProc' = IF BatchReady(WriteFrame(assembler_, procBuffer, processor_))
                 THEN "send" ELSE "recv"
    /\ touched' = Touch(touched, {"framesProcessed", "assembler_"}, "AudioProcessing")
    /\ UNCHANGED <<setupVars, capVars, procBuffer, wsVars, sideVars, g_audioQueue, capLog>>

\* WebSocketManager::isConnected
isConnected == wsState = "Connected"

\* WebSocketManager::sendBatch, first line: if (!isConnected()) return;
SendBatchProceeds == isConnected

\* Variant of AfterSendCheck that keeps the task in sendBatch until the
\* connection is up.
AfterSendCheckWait(proceeds) == IF proceeds THEN "sendBIN" ELSE "send"

\* where the processing task goes after the check: on to ws_.sendBIN, or out of
\* sendBatch by its early return
AfterSendCheck(proceeds) == IF proceeds THEN "sendBIN" ELSE "mark"

ProcSendCheck ==
    /\ pcProc = "send"
    /\ pcProc' = AfterSendCheck(SendBatchProceeds)
    /\ touched' = Touch(touched, {"assembler_", "ws_"}, "AudioProcessing")
    /\ UNCHANGED <<setupVars, capVars, procBuffer, assembler_, slotsWritten, sealedCount,
                   usedProcessors, wsVars, sideVars, g_audioQueue, capLog, g_telemetry>>

\* ws_.sendBIN(batch, sizeof(BatchPacket)); its bool result is discarded
ProcSendBIN ==
    /\ pcProc = "sendBIN"
    /\ \E ok \in BOOLEAN :
        /\ (ok => wsState = "Connected")
        /\ sendFailures' = IF ok THEN sendFailures ELSE sendFailures + 1
    /\ binOnConn' = binOnConn + 1
    /\ lastBinSeq' = assembler_.packet.header.batch_seq
    /\ lastBinLen' = SizeofBatchPacket(buildFrameSize)
    /\ pcProc' = "mark"
    /\ touched' = Touch(touched, {"assembler_", "ws_"}, "AudioProcessing")
    /\ UNCHANGED <<setupVars, capVars, procBuffer, assembler_, slotsWritten, sealedCount,
                   usedProcessors, wsState, txtOnConn, sideVars, g_audioQueue, capLog,
                   g_telemetry>>

\* g_pipeline.markTransmitted() and g_telemetry.batchesSent++
ProcMark ==
    /\ pcProc = "mark"
    /\ assembler_' = AssemblerReset(assembler_)
    /\ slotsWritten' = {}
    /\ g_telemetry' = [g_telemetry EXCEPT !.batchesSent = Inc32(@)]
    /\ capLog' = {e \in capLog :
                    \A i \in 1..FRAMES_PER_BATCH :
                        assembler_.packet.frames[i].frame_seq /= e.sequence}
    /\ pcProc' = "recv"
    /\ touched' = Touch(touched, {"assembler_", "batchesSent"}, "AudioProcessing")
    /\ UNCHANGED <<setupVars, capVars, procBuffer, sealedCount, usedProcessors, wsVars,
                   sideVars, g_audioQueue>>

\* ------------------------------------------------------------------- loop()
\* g_websocket.loop(): ws_ completes a connection attempt. No event handler is
\* registered and nothing is sent on connect.
WsConnect ==
    /\ pcSetup = "done"
    /\ wsState = "Disconnected"
    /\ wsState' = "Connected"
    /\ binOnConn' = 0
    /\ txtOnConn' = 0
    /\ touched' = Touch(touched, {"ws_"}, "loopTask")
    /\ UNCHANGED <<setupVars, capVars, procVars, lastBinSeq, sendFailures, lastBinLen,
                   sideVars, g_audioQueue, capLog, g_telemetry>>

\* g_websocket.loop(): ws_ notices that the connection is lost
WsDisconnect ==
    /\ pcSetup = "done"
    /\ wsState = "Connected"
    /\ wsState' = "Disconnected"
    /\ touched' = Touch(touched, {"ws_"}, "loopTask")
    /\ UNCHANGED <<setupVars, capVars, procVars, binOnConn, txtOnConn, lastBinSeq,
                   sendFailures, lastBinLen, sideVars, g_audioQueue, capLog, g_telemetry>>

Next ==
    \/ SetupWifi
    \/ SetupQueue
    \/ SetupI2S
    \/ SetupPipeline
    \/ SetupTasks
    \/ CaptureRead
    \/ CaptureSend
    \/ CaptureUnblock
    \/ CaptureTimeout
    \/ CaptureCount
    \/ ProcReceive
    \/ ProcProcessFrame
    \/ ProcSendCheck
    \/ ProcSendBIN
    \/ ProcMark
    \/ WsConnect
    \/ WsDisconnect

\* Start of the runs in which the microphone delivers the ramp, whose frames all
\* differ, and every read delivers a whole frame or nothing (no short read is
\* left to happen).
InitWholeFrames ==
    /\ InitPipeline
    /\ mic = "ramp"
    /\ buildFrameSize = FRAME_SIZE
    /\ partialReads = MaxPartialReads
    /\ InitOut
    /\ InitScaleIdle
    /\ InitAP

\* The statistics report of loop() reads the counters and writes no variable
\* of the program, so the behaviours of Spec leave it out; SpecReport below
\* has it as a step of its own, in the runs that start with InitWholeFrames.
Spec == Init /\ [][Next]_vars

\* the statistics report of loop(): reads the four counters and prints them
LoopReport ==
    /\ pcSetup = "done"
    /\ touched' = Touch(touched, TelemetryCounters, "loopTask")
    /\ UNCHANGED <<setupVars, capVars, procVars, wsVars, sideVars, g_audioQueue, capLog,
                   g_telemetry>>

NextReport ==
    \/ Next
    \/ LoopReport

SpecReport == InitWholeFrames /\ [][NextReport]_vars

\* --------------------------------------------------------- fair scheduling
\* a step of the processing task
ProcStep ==
    \/ ProcReceive
    \/ ProcProcessFrame
    \/ ProcSendCheck
    \/ ProcSendBIN
    \/ ProcMark

\* The program of Spec with the processing task scheduled fairly: whenever it
\* is able to take a step it eventually takes one (it is not starved, and
\* ws_.sendBIN returns). Nothing is assumed about the capture task, loop() or
\* the connection.
SpecFair == InitWholeFrames /\ [][Next]_vars /\ WF_vars(ProcStep)

\* ------------------------------------------------ builds of the firmware
\* Frame sizes a build may be compiled with: the FRAME_SIZE of
\* protocol_schema.h, or the samples-per-frame of i2s_config.h put in its place.
BuildFrameSizes == {FRAME_SIZE, BUFFER_SIZE}

InitBuild ==
    /\ InitPipeline
    /\ buildFrameSize \in BuildFrameSizes
    /\ partialReads = 0
    /\ InitOut
    /\ InitScaleIdle
    /\ InitAP

\* The program of Spec, compiled with any of the frame sizes.
SpecBuild == InitBuild /\ [][Next]_vars

\* ------------------------------------------------- Output Queue (spec 4.5)
\* The repository declares the queue's depth and its overflow flag
\* (audio_config.h) but main.cpp has no Output Queue: sendBatch is called by
\* the processing task itself. The queue is modelled from the specification.
SetFlag(flags, bit) == IF (flags \div bit) % 2 = 1 THEN flags ELSE flags + bit

\* Variant of OutSend that discards the new item instead of the oldest one.
OutSendDropNewest(q, item, overflow) ==
    IF Len(q) >= WS_QUEUE_DEPTH
    THEN [queue |-> q, overflow |-> overflow + 1]
    ELSE [queue |-> Append(q, item), overflow |-> overflow]

\* non-blocking send with evict-oldest: the queue and overflow count afterwards
OutSend(q, item, overflow) ==
    IF Len(q) >= WS_QUEUE_DEPTH
    THEN [queue |-> Append(Tail(q),
                           [item EXCEPT !.flags = SetFlag(@, FLAG_QUEUE_OVERFLOW)]),
          overflow |-> overflow + 1]
    ELSE [queue |-> Append(q, item), overflow |-> overflow]

\* Processing offers a completed batch
OutProduce ==
    /\ outProduced < MaxOutBatches
    /\ outQueue' = OutSend(outQueue, [batch_seq |-> outProduced, flags |-> 0],
                           outOverflow).queue
    /\ outOverflow' = OutSend(outQueue, [batch_seq |-> outProduced, flags |-> 0],
                              outOverflow).overflow
    /\ outProduced' = outProduced + 1
    /\ UNCHANGED <<pipelineVars, scaleVars, apVars>>

\* the Transmit Sender receives the oldest item
OutConsume ==
    /\ outQueue /= <<>>
    /\ outQueue' = Tail(outQueue)
    /\ UNCHANGED <<pipelineVars, scaleVars, apVars, outOverflow, outProduced>>

NextOut ==
    \/ OutProduce
    \/ OutConsume

SpecOut == Init /\ [][NextOut]_vars

\* ------------------------------------- ScaledPassThroughProcessor in isolation
\* 16-bit samples given to the processor: both ends of the range, values
\* around zero of both signs, multiples and non-multiples of 5.
ScaleInputs == {INT16_MIN, INT16_MIN + 1, -26215, -1000, -7, -6, -5, -4, -3, -2, -1, 0,
                1, 2, 3, 4, 5, 6, 7, 1000, 26215, INT16_MAX - 1, INT16_MAX}

\* ScaledPassThroughProcessor::processFrame(input, output): the two buffers
\* and the returned VAD afterwards. input is const and is only read.
ScaledProcessFrame(input) ==
    [input |-> input, output |-> applyScale(input), vad |-> ProcessorVad("proc")]

InitScale ==
    /\ InitPipeline
    /\ buildFrameSize = FRAME_SIZE
    /\ partialReads = 0
    /\ InitOut
    /\ scalePc = "idle"
    /\ scaleOrig \in [1..FrameLen -> ScaleInputs]
    /\ scaleIn = scaleOrig
    /\ scaleOut \in UninitPcm
    /\ InitAP

\* one call of processFrame on the frame
ScaleApply ==
    /\ scalePc = "idle"
    /\ scaleIn' = ScaledProcessFrame(scaleIn).input
    /\ scaleOut' = ScaledProcessFrame(scaleIn).output
    /\ scalePc' = "done"
    /\ UNCHANGED <<pipelineVars, outVars, apVars, scaleOrig>>

NextScale == ScaleApply

SpecScale == InitScale /\ [][NextScale]_vars

\* ------------------------------------------------ AudioProcessor (legacy path)
\* 32-bit words the microphone may deliver (24-bit sample, MSB aligned)
RawInputs == {-1, 6553605, -19660800}

\* what freshly malloc'ed 16-bit storage may hold
UninitFill == {0, -12345}

\* the sizes i2s_read_samples may return, in bytes: failure, a short read, a
\* full buffer
ApReadSizes == {0, Int32Bytes, ApBufLen * Int32Bytes}

\* input[i] >> 16 on a signed 32-bit word (arithmetic shift)
Shr16(x) == x \div 2^16

convertTo16Bit(input, output, count) ==
    [i \in 1..Len(output) |-> IF i <= count THEN Shr16(input[i]) ELSE output[i]]

RECURSIVE SumSquares(_, _)
SumSquares(samples, count) ==
    IF count = 0 THEN 0
    ELSE SumSquares(samples, count - 1) + samples[count] * samples[count]

\* the integer part of sqrt(v), searched between lo and hi
RECURSIVE SqrtIn(_, _, _)
SqrtIn(v, lo, hi) ==
    IF lo = hi THEN lo
    ELSE LET mid == (lo + hi + 1) \div 2
         IN IF mid * mid <= v THEN SqrtIn(v, mid, hi) ELSE SqrtIn(v, lo, mid - 1)

CastInt16(x) == IF x > INT16_MAX THEN x - 2^16 ELSE x

calculateRMS(samples, count) ==
    CastInt16(SqrtIn(SumSquares(samples, count) \div count, 0, -INT16_MIN))

RECURSIVE MinOver(_, _)
MinOver(samples, count) ==
    IF count = 0 THEN INT16_MAX
    ELSE LET m == MinOver(samples, count - 1)
         IN IF samples[count] < m THEN samples[count] ELSE m

RECURSIVE MaxOver(_, _)
MaxOver(samples, count) ==
    IF count = 0 THEN INT16_MIN
    ELSE LET m == MaxOver(samples, count - 1)
         IN IF samples[count] > m THEN samples[count] ELSE m

\* begin(): two mallocs, either of which may fail; on failure the function
\* prints an error and returns, the pointers stay as malloc left them
ApBegin ==
    /\ apPc = "constructed"
    /\ \E rawOk \in BOOLEAN, procOk \in BOOLEAN, fill \in UninitFill :
          /\ raw_samples' = IF rawOk
                            THEN [alloc |-> TRUE, data |-> [i \in 1..ApBufLen |-> 0]]
                            ELSE NullBuffer
          /\ processed_samples' = IF procOk
                                  THEN [alloc |-> TRUE,
                                        data |-> [i \in 1..ApBufLen |-> fill]]
                                  ELSE NullBuffer
    /\ apPc' = "begun"
    /\ UNCHANGED <<pipelineVars, outVars, scaleVars, sample_count, apBytesRead, apCalls,
                   apPrinted, nullAccess>>

\* the body of processAudio for a read of n bytes delivering data; junk is what
\* a read through a null raw_samples yields, and a write through a null
\* pointer is lost. faults names the null pointers the call went through.
processAudio(raw, processed, count, n, data, junk) ==
    IF n = 0
    THEN [raw |-> raw, processed |-> processed, sample_count |-> count, faults |-> {}]
    ELSE LET samples_read == n \div Int32Bytes
             rawAfter == IF raw.alloc
                         THEN [raw EXCEPT !.data = [i \in 1..ApBufLen |->
                                  IF i <= samples_read THEN data[i] ELSE raw.data[i]]]
                         ELSE raw
             input == IF raw.alloc THEN rawAfter.data ELSE [i \in 1..ApBufLen |-> junk]
             processedAfter == IF processed.alloc
                               THEN [processed EXCEPT
                                       !.data = convertTo16Bit(input, @, samples_read)]
                               ELSE processed
         IN [raw |-> rawAfter,
             processed |-> processedAfter,
             sample_count |-> count + samples_read,
             faults |-> (IF raw.alloc THEN {} ELSE {"raw_samples"})
                        \cup (IF processed.alloc THEN {} ELSE {"processed_samples"})]

\* one call of processAudio; an access through a null pointer either traps
\* (the processor is dead) or goes unnoticed and the call runs to its end
ApProcessAudio ==
    /\ apPc = "begun"
    /\ apCalls < MaxApCalls
    /\ \E n \in ApReadSizes, data \in [1..ApBufLen -> RawInputs], junk \in RawInputs,
          trap \in BOOLEAN :
          LET r == processAudio(raw_samples, processed_samples, sample_count, n, data,
                                junk)
          IN /\ trap => r.faults /= {}
             /\ apBytesRead' = n
             /\ nullAccess' = nullAccess \cup r.faults
             /\ IF trap
                THEN /\ apPc' = "crashed"
                     /\ UNCHANGED <<raw_samples, processed_samples, sample_count>>
                ELSE /\ apPc' = apPc
                     /\ raw_samples' = r.raw
                     /\ processed_samples' = r.processed
                     /\ sample_count' = r.sample_count
    /\ apCalls' = apCalls + 1
    /\ UNCHANGED <<pipelineVars, outVars, scaleVars, apPrinted>>

\* one call of printAudioStats
ApPrintStats ==
    /\ apPc = "begun"
    /\ apPrinted' = IF ~processed_samples.alloc THEN apPrinted
                    ELSE <<sample_count,
                           calculateRMS(processed_samples.data, ApBufLen),
                           MinOver(processed_samples.data, ApBufLen),
                           MaxOver(processed_samples.data, ApBufLen)>>
    /\ UNCHANGED <<pipelineVars, outVars, scaleVars, apPc, raw_samples,
                   processed_samples, sample_count, apBytesRead, apCalls, nullAccess>>

NextAP == ApBegin \/ ApProcessAudio \/ ApPrintStats

SpecAP == Init /\ [][NextAP]_vars

\* ===================================================================== claims
Frames == assembler_.packet.frames

Header == assembler_.packet.header

\* the processing task is inside the call g_websocket.sendBatch(getBatch())
InSendBatch == pcProc \in {"send", "sendBIN"}

\* C1: the capture task never waits on the Frame Queue: a send attempt on a
\* full queue ends at once with the frame dropped, queueOverruns one higher
\* and the queue untouched; the task is never suspended on the queue.
C1_CaptureNeverWaits ==
    [][(pcCap = "send" /\ pcCap' /= "send" /\ Len(g_audioQueue) >= QUEUE_DEPTH)
          => /\ pcCap' = "read"
             /\ g_telemetry'.queueOverruns = g_telemetry.queueOverruns + 1
             /\ g_audioQueue' = g_audioQueue]_vars

\* C2: the frame_seq values the processing task dequeues are strictly
\* increasing, whatever the interleaving: frames are dropped but never
\* reordered and never delivered twice, and only frames capture has stamped
\* are delivered.
C2_FifoOrder ==
    [][(pcProc = "recv" /\ pcProc' = "process")
          => /\ procBuffer'.sequence > procBuffer.sequence
             /\ procBuffer'.sequence < sequence
             /\ \A i \in 1..Len(g_audioQueue') :
                    g_audioQueue'[i].sequence > procBuffer'.sequence]_vars

\* C2 witness: a frame was dropped at the full queue and a later frame has
\* been dequeued after the frames that were queued before the drop.
C2_Witness ==
    /\ g_telemetry.queueOverruns = 1
    /\ pcProc = "process"
    /\ procBuffer.sequence = 9

\* C3: every batch handed to sendBatch holds exactly FRAMES_PER_BATCH frames,
\* one per slot, all written since the previous reset, each a distinct frame
\* captured since the previous batch was sealed, in capture order.
C3_BatchComplete ==
    InSendBatch =>
        /\ assembler_.frameCount = FRAMES_PER_BATCH
        /\ slotsWritten = 1..FRAMES_PER_BATCH
        /\ \A i \in 1..FRAMES_PER_BATCH :
              [sequence |-> Frames[i].frame_seq, pcm |-> Frames[i].raw_pcm] \in capLog
        /\ \A i \in 1..(FRAMES_PER_BATCH - 1) :
              Frames[i].frame_seq < Frames[i + 1].frame_seq
        /\ Frames[FRAMES_PER_BATCH].frame_seq = procBuffer.sequence

\* C3 witness: the second batch, sealed over the slots of the first one, is
\* being sent while disconnected after a frame was dropped.
C3_Witness ==
    /\ pcProc = "send"
    /\ sealedCount = 2
    /\ wsState = "Disconnected"
    /\ g_telemetry.queueOverruns = 1

\* C4: the k-th sealed batch (0-indexed) carries batch_seq = k, and the batch
\* sequence counter always equals the number of batches sealed so far, also
\* after reset().
C4_BatchSeq ==
    /\ assembler_.batchSequence = sealedCount
    /\ (pcProc \in {"send", "sendBIN", "mark"}
           => /\ sealedCount >= 1
              /\ Header.batch_seq = sealedCount - 1)

\* C4 witness: the second batch has been sealed, after the reset that followed
\* the first.
C4_Witness ==
    /\ pcProc = "sendBIN"
    /\ sealedCount = 2
    /\ g_telemetry.batchesSent = 1

\* C5: sendBIN is invoked only in a state where the connection is Connected.
C5_SendOnlyWhenConnected == pcProc = "sendBIN" => wsState = "Connected"

\* C6: inserting into a full Output Queue keeps its size at the capacity,
\* removes the oldest item, puts the new item last with its discontinuity
\* flag set and raises the overflow counter by exactly one; an insert into a
\* queue with room changes neither the counter nor the flag.
C6_Eviction ==
    [][outProduced' = outProduced + 1
          => IF Len(outQueue) = WS_QUEUE_DEPTH
             THEN /\ Len(outQueue') = WS_QUEUE_DEPTH
                  /\ \A i \in 1..Len(outQueue') :
                         outQueue'[i].batch_seq /= Head(outQueue).batch_seq
                  /\ outQueue'[Len(outQueue')]
                         = [batch_seq |-> outProduced, flags |-> FLAG_QUEUE_OVERFLOW]
                  /\ SubSeq(outQueue', 1, WS_QUEUE_DEPTH - 1) = Tail(outQueue)
                  /\ outOverflow' = outOverflow + 1
             ELSE /\ outQueue' = Append(outQueue, [batch_seq |-> outProduced, flags |-> 0])
                  /\ outOverflow' = outOverflow]_vars

\* C6 witness: an insert has evicted the oldest item of a full queue.
C6_Witness ==
    /\ Len(outQueue) = WS_QUEUE_DEPTH
    /\ outOverflow = 1
    /\ outQueue[WS_QUEUE_DEPTH].flags = FLAG_QUEUE_OVERFLOW
    /\ outQueue[1].batch_seq = 1

\* C7: while Connected exactly one textual handshake has been sent on the
\* connection, and no binary batch is sent on a connection before it.
C7_HandshakeFirst ==
    /\ (wsState = "Connected" => txtOnConn = 1)
    /\ (binOnConn > 0 => txtOnConn >= 1)

\* C8: begin returns true; when the supplied processor's init() fails the
\* active processor is the fallback and the supplied one never processes a
\* frame; when init() succeeds the active processor is the supplied one.
C8_BeginFallback ==
    beginResult /= "none" =>
        /\ beginResult = "true"
        /\ (ProcessorInit(supplied) => processor_ = supplied)
        /\ (~ProcessorInit(supplied) =>
                /\ processor_ = "fallback"
                /\ supplied \notin usedProcessors)
        /\ usedProcessors \subseteq {processor_}

\* C8 witness: init() of the supplied processor failed and frames have been
\* processed by the fallback.
C8_Witness ==
    /\ supplied = "aiProc"
    /\ usedProcessors = {"fallback"}
    /\ g_telemetry.framesProcessed = FRAMES_PER_BATCH

\* C9: each sealed batch gets at most one send attempt, made when it is
\* sealed (sendBIN is only ever given the batch sealed last, and never a batch
\* it was given before), and a send that fails is counted in Telemetry.
C9_SingleAttemptFailureCounted ==
    [][/\ (pcProc = "sendBIN" /\ pcProc' = "mark")
            => /\ lastBinSeq' = sealedCount - 1
               /\ lastBinSeq' > lastBinSeq
       /\ sendFailures' > sendFailures => g_telemetry' /= g_telemetry]_vars

\* The frames 0..3 captured are the end-to-end scenario's input: all zeros
\* except sample 0 of frame 0 = 1000.
E2EInput ==
    /\ mic = "impulse"
    /\ \A k \in 0..(FRAMES_PER_BATCH - 1) :
          [sequence |-> k, pcm |-> SignalFrame("impulse", k)] \in capLog

\* exactly FRAMES_PER_BATCH frames have been processed and the batch is sealed
E2EProcessed ==
    /\ g_telemetry.framesProcessed = FRAMES_PER_BATCH
    /\ pcProc \in {"send", "sendBIN", "mark"}

\* what the end-to-end scenario expects of the batch, clean_pcm aside
E2EBatch ==
    /\ sealedCount = 1
    /\ Header.batch_seq = 0
    /\ \A i \in 1..FRAMES_PER_BATCH :
          /\ Frames[i].frame_seq = i - 1
          /\ [sequence |-> i - 1, pcm |-> Frames[i].raw_pcm] \in capLog

\* C10 as stated: ... and clean_pcm identical to raw_pcm in frame 0.
C10_EndToEndIdentity ==
    (E2EInput /\ E2EProcessed) =>
        /\ E2EBatch
        /\ Frames[1].clean_pcm = Frames[1].raw_pcm

\* C10 amended: after exactly four frames 0..3 of the scenario's input, one
\* batch is sealed with batch_seq 0, frame_seq 0..3 in slot order, raw_pcm of
\* each slot equal to the captured samples, and clean_pcm of frame 0 equal to
\* raw_pcm scaled by 0.8: sample 0 = 800, every other sample 0.
C10_EndToEndScaled ==
    (E2EInput /\ E2EProcessed) =>
        /\ E2EBatch
        /\ Frames[1].raw_pcm = [i \in 1..FrameLen |-> IF i = 1 THEN 1000 ELSE 0]
        /\ Frames[1].clean_pcm = [i \in 1..FrameLen |-> IF i = 1 THEN 800 ELSE 0]
        /\ \A i \in 2..FRAMES_PER_BATCH : Frames[i].clean_pcm = ZeroPcm

\* C10 witness: the scenario's four frames have been processed and sealed.
C10_Witness ==
    /\ E2EInput
    /\ E2EProcessed
    /\ pcProc = "mark"
    /\ sequence = FRAMES_PER_BATCH

\* C11: after ScaledPassThroughProcessor::processFrame every output sample is
\* the input sample times 0.8, clamped to the int16 range and truncated
\* toward zero, for all samples of the frame, and the input is unchanged.
\* With v the clamped product in fifths, the output y is the integer between
\* 0 and v/5 that is nearest to v/5.
C11_ScaledClamped ==
    scalePc = "done" =>
        /\ scaleIn = scaleOrig
        /\ DOMAIN scaleOut = 1..FrameLen
        /\ \A i \in 1..FrameLen :
              LET n == ScaleNum * scaleOrig[i]
                  lo == INT16_MIN * ScaleDen
                  hi == INT16_MAX * ScaleDen
                  v == IF n > hi THEN hi ELSE IF n < lo THEN lo ELSE n
                  y == scaleOut[i]
              IN /\ y \in INT16_MIN..INT16_MAX
                 /\ IF v >= 0
                    THEN ScaleDen * y <= v /\ v < ScaleDen * (y + 1)
                    ELSE ScaleDen * (y - 1) < v /\ v <= ScaleDen * y

C11_Witness ==
    /\ scalePc = "done"
    /\ scaleOrig[1] = INT16_MIN /\ scaleOut[1] = -26214
    /\ scaleOrig[2] = -7 /\ scaleOut[2] = -5

\* C12: the byte count given to sendBIN is exactly 7744 = 16 + 4 * 1932: the
\* header members are magic, version, reserved, batch_seq, timestamp_ms of
\* 4, 1, 3, 4, 4 bytes (16 in all), the frame members are frame_seq,
\* vad_prob, rms_raw, raw_pcm, clean_pcm of 4, 4, 4, 960, 960 bytes (1932 in
\* all), each member starts where the previous one ends.
C12_BatchWireSize ==
    lastBinLen /= -1 =>
        LET hdr == BatchHeaderFields
            frm == AudioFrameFields(buildFrameSize)
        IN /\ lastBinLen = 7744
           /\ lastBinLen = 16 + 4 * 1932
           /\ [k \in 1..Len(hdr) |-> hdr[k].name] =
                  <<"magic", "version", "reserved", "batch_seq", "timestamp_ms">>
           /\ [k \in 1..Len(hdr) |-> hdr[k].size] = <<4, 1, 3, 4, 4>>
           /\ [k \in 1..Len(hdr) |-> PackedOffset(hdr, k)] = <<0, 4, 5, 8, 12>>
           /\ PackedSize(hdr) = 16
           /\ [k \in 1..Len(frm) |-> frm[k].name] =
                  <<"frame_seq", "vad_prob", "rms_raw", "raw_pcm", "clean_pcm">>
           /\ [k \in 1..Len(frm) |-> frm[k].size] = <<4, 4, 4, 960, 960>>
           /\ [k \in 1..Len(frm) |-> PackedOffset(frm, k)] = <<0, 4, 8, 12, 972>>
           /\ PackedSize(frm) = 1932

C12_Witness ==
    /\ lastBinLen = 7744
    /\ lastBinSeq = 1
    /\ pcProc = "mark"

\* C13: a hardware read that returns 0 bytes increments an error counter,
\* enqueues no frame, leaves the capture task at the read of the next period
\* and changes no other pipeline state. The step is the capture task's read
\* whose bytesRead becomes 0.
ReadFailedStep ==
    /\ pcCap = "read"
    /\ pcCap' = "read"
    /\ bytesRead /= 0
    /\ bytesRead' = 0

C13_ReadFailureCounted ==
    [][ReadFailedStep =>
          /\ g_telemetry' /= g_telemetry
          /\ g_audioQueue' = g_audioQueue
          /\ UNCHANGED <<setupVars, procVars, wsVars, capBuffer, sequence>>]_vars

\* C14: setup() halts exactly when xQueueCreate or g_i2s.begin() failed; once
\* halted it stays halted and neither task has been started; and a task that
\* has been started is never stopped again, whatever happens at run time.
C14_HaltOnlyAtStartup ==
    [][/\ (setupFailure' /= "none" <=> pcSetup' = "halted")
       /\ (pcSetup' = "halted" =>
               pcCap' = "off" /\ pcProc' = "off" /\ g_audioQueue' = <<>>)
       /\ (pcSetup = "halted" => pcSetup' = "halted")
       /\ (pcSetup = "done" => pcSetup' = "done")
       /\ (pcCap /= "off" => pcCap' /= "off")
       /\ (pcProc /= "off" => pcProc' /= "off")]_vars

C14_Witness ==
    /\ setupFailure = "i2s"
    /\ pcSetup = "halted"
    /\ pcCap = "off"
    /\ pcProc = "off"

SendInProgress == pcProc = "sendBIN"

C16_ProcessingNeverBlocksOnNetwork ==
    /\ ~SendInProgress
    /\ (SendInProgress /\ g_audioQueue /= <<>>) => ENABLED ProcReceive

\* C17: apart from the Frame Queue, no shared object (ws_, assembler_, any of
\* the telemetry counters) is read or written by two different tasks.
C17_OnlyQueueShared ==
    \A o \in SharedObjects \ {"g_audioQueue"} : Cardinality(touched[o]) <= 1

\* C18: every frame in the Frame Queue holds the FRAME_SIZE samples the
\* hardware produced in the period the frame is stamped with, and the capture
\* task offers a frame to the queue only after a read that delivered a whole
\* frame.
C18_EnqueuedFramesWhole ==
    /\ \A i \in 1..Len(g_audioQueue) :
          g_audioQueue[i].pcm = SignalFrame(mic, g_audioQueue[i].sequence)
    /\ pcCap \in {"send", "blocked", "count"} => bytesRead = FrameBytes

\* C19: from the moment the sealed batch is handed to sendBatch until
\* sendBatch has returned, the assembler holds the sealed batch (sealed header,
\* all FRAMES_PER_BATCH slots counted) and no step changes its header, its
\* slots or its counters: reset and the next frame write come afterwards.
C19_SealedBatchStable ==
    [][InSendBatch =>
          /\ assembler_' = assembler_
          /\ Header.magic = PROTOCOL_MAGIC
          /\ Header.version = PROTOCOL_VERSION
          /\ assembler_.frameCount = FRAMES_PER_BATCH]_vars

C19_Witness ==
    /\ pcProc = "sendBIN"
    /\ Header.batch_seq = 1
    /\ assembler_.frameCount = FRAMES_PER_BATCH
    /\ g_audioQueue /= <<>>

\* C20: capture wrote one set of samples per sequence number, and every frame
\* waiting in the Frame Queue, the frame the processing task has dequeued and
\* every frame it has put into the batch hold exactly the samples capture
\* wrote under that sequence number, however often capture has reused its
\* buffer since.
AsCaptured(seq, pcm) == [sequence |-> seq, pcm |-> pcm] \in capLog

C20_FramesAsCaptured ==
    /\ \A e1, e2 \in capLog : e1.sequence = e2.sequence => e1 = e2
    /\ \A i \in 1..Len(g_audioQueue) :
          AsCaptured(g_audioQueue[i].sequence, g_audioQueue[i].pcm)
    /\ pcProc = "process" => AsCaptured(procBuffer.sequence, procBuffer.pcm)
    /\ \A i \in slotsWritten : AsCaptured(Frames[i].frame_seq, Frames[i].raw_pcm)

C20_Witness ==
    /\ mic = "ramp"
    /\ pcProc = "process"
    /\ procBuffer.sequence = 0
    /\ Len(g_audioQueue) = QUEUE_DEPTH
    /\ pcCap = "blocked"
    /\ capBuffer.sequence = QUEUE_DEPTH + 1
    /\ capBuffer.pcm /= procBuffer.pcm

\* C21: the Frame Queue never holds more than QUEUE_DEPTH frames; the queue
\* only changes by the capture task's frame being appended at the tail or by
\* the head being handed to the processing task; and when an overrun is
\* counted the queue was full and keeps all its frames: the frame discarded
\* is the one capture offered.
C21_BoundedDropNewest ==
    [][/\ Len(g_audioQueue') <= QUEUE_DEPTH
       /\ \/ g_audioQueue' = g_audioQueue
          \/ g_audioQueue' = Append(g_audioQueue, capBuffer)
          \/ /\ g_audioQueue /= <<>>
             /\ g_audioQueue' = Tail(g_audioQueue)
             /\ procBuffer' = Head(g_audioQueue)
       /\ g_telemetry'.queueOverruns /= g_telemetry.queueOverruns =>
             /\ Len(g_audioQueue) = QUEUE_DEPTH
             /\ g_audioQueue' = g_audioQueue
             /\ \A i \in 1..Len(g_audioQueue') :
                    g_audioQueue'[i].sequence < capBuffer.sequence]_vars

C21_Witness ==
    /\ g_telemetry.queueOverruns = 1
    /\ pcCap = "read"
    /\ capBuffer.sequence = QUEUE_DEPTH + 1
    /\ Len(g_audioQueue) = QUEUE_DEPTH
    /\ g_audioQueue[1].sequence = 1
    /\ g_audioQueue[QUEUE_DEPTH].sequence = QUEUE_DEPTH
    /\ procBuffer.sequence = 0

\* C22: with the processing task scheduled fairly, every frame that is in the
\* Frame Queue is eventually written into a slot of the batch under assembly,
\* no frame is in two slots, and the frame that brings the count of processed
\* frames to a multiple of FRAMES_PER_BATCH seals a batch, whether or not the
\* connection is up.
FrameQueued(s) == \E i \in 1..Len(g_audioQueue) : g_audioQueue[i].sequence = s

FrameInSlot(s) == \E i \in slotsWritten : Frames[i].frame_seq = s

C22_EveryFrameBatched ==
    /\ \A s \in 0..(MaxFrames - 1) : FrameQueued(s) ~> FrameInSlot(s)
    /\ [](\A i, j \in slotsWritten : Frames[i].frame_seq = Frames[j].frame_seq => i = j)
    /\ \A k \in 1..(MaxFrames \div FRAMES_PER_BATCH) :
          (pcProc = "process" /\ g_telemetry.framesProcessed = FRAMES_PER_BATCH * k - 1)
              ~> (sealedCount = k /\ Header.batch_seq = k - 1
                    /\ Header.magic = PROTOCOL_MAGIC)

C22_Witness ==
    /\ wsState = "Disconnected"
    /\ lastBinSeq = -1
    /\ sealedCount = 2
    /\ pcProc = "send"
    /\ FrameInSlot(2 * FRAMES_PER_BATCH - 1)
    /\ FrameQueued(2 * FRAMES_PER_BATCH)

\* C23: framesCaptured and queueOverruns change only in steps of the capture
\* task, framesProcessed and batchesSent only in steps of the processing
\* task; besides its writer only loop() uses a counter; and every counting
\* step of a task raises its counter by exactly one, so that no update is
\* lost.
CounterOwner(c) ==
    IF c \in {"framesCaptured", "queueOverruns"} THEN "AudioCapture" ELSE "AudioProcessing"

C23_SingleWriterCounters ==
    [][/\ \A c \in TelemetryCounters :
            /\ touched'[c] \subseteq {CounterOwner(c), "loopTask"}
            /\ g_telemetry'[c] /= g_telemetry[c] =>
                  /\ g_telemetry'[c] = g_telemetry[c] + 1
                  /\ IF CounterOwner(c) = "AudioCapture"
                     THEN pcCap' /= pcCap /\ UNCHANGED procVars
                     ELSE pcProc' /= pcProc /\ UNCHANGED capVars
       /\ (pcCap = "count" /\ pcCap' = "read") =>
             g_telemetry'.framesCaptured = g_telemetry.framesCaptured + 1
       /\ (pcCap = "blocked" /\ pcCap' = "read") =>
             g_telemetry'.queueOverruns = g_telemetry.queueOverruns + 1
       /\ (pcProc = "process" /\ pcProc' /= "process") =>
             g_telemetry'.framesProcessed = g_telemetry.framesProcessed + 1
       /\ (pcProc = "mark" /\ pcProc' = "recv") =>
             g_telemetry'.batchesSent = g_telemetry.batchesSent + 1]_vars

C23_Witness ==
    /\ touched["framesCaptured"] = {"AudioCapture", "loopTask"}
    /\ touched["framesProcessed"] = {"AudioProcessing", "loopTask"}
    /\ touched["batchesSent"] = {"AudioProcessing", "loopTask"}
    /\ g_telemetry.batchesSent = 2
    /\ g_telemetry.framesCaptured = MaxFrames

\* C24: batchesSent is raised only for a batch that was given to ws_.sendBIN:
\* a batch sealed while disconnected, for which sendBatch returned early,
\* leaves batchesSent as it is.
C24_BatchesSentCountsSends ==
    [][g_telemetry'.batchesSent /= g_telemetry.batchesSent =>
          lastBinSeq = Header.batch_seq]_vars

\* C25: in every reachable state the number of frames counted as processed
\* does not exceed the number counted as captured.
C25_ProcessedAtMostCaptured ==
    g_telemetry.framesProcessed <= g_telemetry.framesCaptured

\* C26: whenever the processing task is at the top of its loop, frameCount is
\* in 0..FRAMES_PER_BATCH-1 and FRAMES_PER_BATCH * batchSequence + frameCount
\* equals framesProcessed; and whenever it is about to call processFrame the
\* slot it will write lies inside frames[FRAMES_PER_BATCH].
C26_FrameCountInvariant ==
    /\ pcProc = "recv" =>
          /\ 0 <= assembler_.frameCount
          /\ assembler_.frameCount < FRAMES_PER_BATCH
          /\ FRAMES_PER_BATCH * assembler_.batchSequence + assembler_.frameCount
                 = g_telemetry.framesProcessed
    /\ pcProc = "process" => SlotIndex(assembler_) \in 1..FRAMES_PER_BATCH
    /\ slotsWritten \subseteq 1..FRAMES_PER_BATCH

C26_Witness ==
    /\ pcProc = "recv"
    /\ assembler_.batchSequence = 2
    /\ assembler_.frameCount = 1
    /\ g_telemetry.framesProcessed = 2 * FRAMES_PER_BATCH + 1

\* C27: whenever the capture task is at the top of its loop, framesCaptured +
\* queueOverruns is the number of sequence numbers issued, and the issued
\* numbers that Processing has not received and that are not waiting in the
\* queue number queueOverruns; the frame_seq values Processing has skipped up
\* to the frame it holds never exceed queueOverruns; and while nothing has
\* overflowed, slot i of batch k holds frame_seq FRAMES_PER_BATCH * k + i - 1.
BatchIndex ==
    IF pcProc \in {"send", "sendBIN", "mark"} THEN Header.batch_seq
    ELSE assembler_.batchSequence

C27_SequenceAccounting ==
    /\ pcCap = "read" =>
          /\ g_telemetry.framesCaptured + g_telemetry.queueOverruns = sequence
          /\ sequence - (g_telemetry.framesProcessed + Len(g_audioQueue)
                            + (IF pcProc = "process" THEN 1 ELSE 0))
                 = g_telemetry.queueOverruns
    /\ pcProc = "process" =>
          /\ procBuffer.sequence - g_telemetry.framesProcessed >= 0
          /\ procBuffer.sequence - g_telemetry.framesProcessed
                 <= g_telemetry.queueOverruns
    /\ g_telemetry.queueOverruns = 0 =>
          \A i \in slotsWritten :
              Frames[i].frame_seq = FRAMES_PER_BATCH * BatchIndex + i - 1

C27_Witness ==
    /\ pcCap = "read"
    /\ sequence = MaxFrames
    /\ g_telemetry.queueOverruns = 1
    /\ g_telemetry.framesCaptured = MaxFrames - 1
    /\ pcProc = "process"
    /\ procBuffer.sequence = g_telemetry.framesProcessed + 1

\* a call of processAudio whose read returned 0 bytes
ZeroByteRead == apCalls' = apCalls + 1 /\ apBytesRead' = 0

\* C28: after a begin that failed to allocate either sample buffer, no call of
\* processAudio or printAudioStats reads or writes through the unallocated
\* buffer, and a call of processAudio whose read returns 0 bytes leaves
\* sample_count and the processed buffer unchanged.
C28_NoAccessThroughUnallocated ==
    [][/\ nullAccess' = {}
       /\ ZeroByteRead => /\ sample_count' = sample_count
                          /\ processed_samples' = processed_samples]_vars

====
